---- MODULE Spec2Model ----
(***************************************************************************)
(* demo_three_pillars.py: a main loop that opens a root span per           *)
(* iteration, processes req_count simulated items (three child spans, two  *)
(* packet totals, one JSON log line each), and a metrics export thread     *)
(* that pulls the observable callbacks concurrently with the main loop.    *)
(*                                                                         *)
(* Threads of the model: the main thread (the while loop), the metrics     *)
(* export thread (packets_in_cb, packets_out_cb, packet_rate_cb), the      *)
(* callers of src_gauge_cb / dst_gauge_cb, and callers of log_json.        *)
(* A step of a thread is one access to shared state; statements that touch *)
(* only thread-local state are folded into the next shared access.         *)
(***************************************************************************)
EXTENDS Integers, Sequences, FiniteSets, TLC

\* ------------------------------------------------------------------ bounds
\* Number of items the explored iterations of the while loop process in
\* all (an iteration is begun only if the items it drew fit): of the main
\* thread alone, and with the export thread pulling concurrently.
MaxItems == 8
MaxItemsPulled == 4
\* Number of log_json calls of each concurrent emitter.
MaxEmits == 2
\* Number of invocations of a gauge callback by each of its callers: with
\* two concurrent callers, and with one caller.
MaxGaugeCalls == 1
MaxGaugeCallsSeq == 2
\* Number of callback invocations made by the metrics export thread.
MaxPulls == 2

\* ------------------------------------------------------- program constants
MinReqCount == 3
MaxReqCount == 8
SizeDivisor == 512
\* RotatingFileHandler(LOG_PATH, maxBytes=5_000_000, backupCount=2)
MaxBytes == 5000000
BackupCount == 2
TraceIdWidth == 32

\* Python's None.
None == "None"

\* time.time() readings, in ticks of 0.5 ms counted from interpreter start.
TicksPerSecond == 2 * 1000
\* The floor 0.001 s of line 63, in ticks.
ElapsedFloor == TicksPerSecond \div 1000
Times == {0, 3}

sources == <<"source1", "source2", "source3", "source4", "source5">>
destinations == <<"dest1", "dest2">>

\* random.randint(3, 8)
ReqCounts == MinReqCount..MaxReqCount

\* Size in bytes of the log file when the handler opens it (mode "a"): a new
\* file, and files that lack 300 and 100 bytes to maxBytes.
SinkBases == {0, MaxBytes - 300, MaxBytes - 100}

\* The random draws of one simulated item (lines 146-149) together with the
\* wall-clock time its three sleeps take (line 158), in ms.
ItemInputs ==
  { [src |-> sources[1], dst |-> destinations[1], size |-> 200,
     status |-> "ok", latency_ms |-> 0],
    [src |-> sources[5], dst |-> destinations[2], size |-> 4000,
     status |-> "error", latency_ms |-> 59] }

\* The trace id the id generator draws for the n-th root span: never 0, and
\* fresh for every root.
TraceIds(n) == {254 * n + 1}

\* datetime.utcnow().isoformat() + "Z"
TsValues == {"2024-01-01T00:00:00.000001Z"}

Threads == {"main", "e1", "e2"}
Emitters == {"e1", "e2"}
NoThread == "nobody"

\* ------------------------------------------------------------- conversions
Max(a, b) == IF a >= b THEN a ELSE b

DecDigits == <<"0", "1", "2", "3", "4", "5", "6", "7", "8", "9">>
HexDigits == <<"0", "1", "2", "3", "4", "5", "6", "7", "8", "9",
               "a", "b", "c", "d", "e", "f">>

RECURSIVE DecNat(_)
DecNat(n) ==
  IF n < 10 THEN DecDigits[n + 1]
  ELSE DecNat(n \div 10) \o DecDigits[(n % 10) + 1]

\* json.dumps of an int.
JsonInt(n) == IF n < 0 THEN "-" \o DecNat(0 - n) ELSE DecNat(n)

\* f"{n:0{w}x}": lower-case hex, zero padded to width w.
RECURSIVE HexPad(_, _)
HexPad(n, w) ==
  IF w <= 1 /\ n < 16 THEN HexDigits[n + 1]
  ELSE HexPad(n \div 16, w - 1) \o HexDigits[(n % 16) + 1]

\* Line 167 without the test for the invalid trace id.
FormatTraceIdAlways(tid) == HexPad(tid, TraceIdWidth)

\* Line 167: the hex trace id of a span context, None without a valid one.
FormatTraceId(tid) == IF tid # 0 THEN HexPad(tid, TraceIdWidth) ELSE None

\* json.dumps of a str (the values of this program need no escaping).
JsonStr(s) == "\"" \o s \o "\""

JsonOptStr(s) == IF s = None THEN "null" ELSE JsonStr(s)

\* json.dumps(record, separators=(",", ":")): keys in insertion order.
JsonDumps(r) ==
  "{\"ts\":" \o JsonStr(r.ts)
  \o ",\"level\":" \o JsonStr(r.level)
  \o ",\"hostname\":" \o JsonStr(r.hostname)
  \o ",\"src\":" \o JsonStr(r.src)
  \o ",\"dst\":" \o JsonStr(r.dst)
  \o ",\"bytes\":" \o JsonInt(r.bytes)
  \o ",\"latency_ms\":" \o JsonInt(r.latency_ms)
  \o ",\"status\":" \o JsonStr(r.status)
  \o ",\"trace_id\":" \o JsonOptStr(r.trace_id)
  \o ",\"msg\":" \o JsonStr(r.msg)
  \o "}"

\* A value json.dumps has no encoding for (it raises TypeError).
Unserializable == "<object>"

\* Whether json.dumps(record) returns.
Serializable(r) ==
  \A k \in {"ts", "level", "hostname", "src", "dst", "status", "trace_id",
             "msg"} : r[k] # Unserializable

\* The dict literal of lines 169-180.
LogRecord(ts, src, dst, size, latency_ms, status, trace_id) ==
  [ts |-> ts,
   level |-> IF status = "ok" THEN "INFO" ELSE "ERROR",
   hostname |-> "host1",
   src |-> src,
   dst |-> dst,
   bytes |-> size,
   latency_ms |-> latency_ms,
   status |-> status,
   trace_id |-> trace_id,
   msg |-> "processed message"]

\* size // 512
PacketsOf(size) == size \div SizeDivisor

\* Lines 162-163 written with -= instead of +=.
AddPacketsDecrement(total, size) == total - PacketsOf(size)

\* Lines 162-163 rounding the packet count up.
AddPacketsRounded(total, size) ==
  total + ((size + SizeDivisor - 1) \div SizeDivisor)

\* Lines 162-163 written without the division.
AddPacketsBytes(total, size) == total + size

\* `total += size // 512`
AddPackets(total, size) == total + PacketsOf(size)

StageNames == <<"ingest", "transform", "store">>

\* ------------------------------------------------------------------- state
VARIABLES
  \* globals of lines 43-44
  packets_in_total, packets_out_total,
  \* globals of lines 57-58
  last_rate_calc, last_total,
  \* main thread: position and locals of the while loop
  main_pc, iter, item_limit, noop_tracer, req_count, item, cur, stage, batch_latency_ms,
  trace_id, exc, totals_at_start,
  \* tracing: the main thread's current-span stack and the ended spans, in
  \* the order they were handed to the span processor
  spans, span_stack, ended,
  \* logging: handler lock, the log file (the chunks written to it, one per
  \* stream.write, after the sink_base bytes it held when it was opened), its
  \* backups log.1, log.2 (newest first), stderr reports of handleError, and
  \* the records whose log_json call returned normally
  lock_owner, lock_count, sink, sink_writable, sink_base, backups, stderr_reports, emitted,
  lj_pc, lj_rec, emit_count,
  \* metrics export thread
  exp_pc, pulls, r_in, r_current, delta_sum,
  in_obs, out_obs, rate_obs,
  \* lines 75-76
  src_state, dst_state,
  \* callers of src_gauge_cb / dst_gauge_cb: position, locals, the list `out`
  \* being built or last returned, and the invocations made
  g_pc, g_i, g_add, g_tmp, g_now, g_out, g_calls, g_limit,
  \* history: per entity, the sum of the deltas that completed `+=`
  \* statements applied to packets and to bytes
  applied_src, applied_dst

vars ==
  <<packets_in_total, packets_out_total, last_rate_calc, last_total,
    main_pc, iter, item_limit, noop_tracer, req_count, item, cur, stage, batch_latency_ms,
    trace_id, exc, totals_at_start, spans, span_stack, ended,
    lock_owner, lock_count, sink, sink_writable, sink_base, backups, stderr_reports, emitted,
    lj_pc, lj_rec, emit_count,
    exp_pc, pulls, r_in, r_current, delta_sum,
    in_obs, out_obs, rate_obs,
    src_state, dst_state, g_pc, g_i, g_add, g_tmp, g_now, g_out, g_calls,
    g_limit,
    applied_src, applied_dst>>

totalsVars == <<packets_in_total, packets_out_total>>
rateVars == <<last_rate_calc, last_total>>
mainVars ==
  <<main_pc, iter, item_limit, noop_tracer, req_count, item, cur, stage,
    batch_latency_ms, trace_id, exc, totals_at_start>>
spanVars == <<spans, span_stack, ended>>
logVars ==
  <<lock_owner, lock_count, sink, sink_writable, sink_base, backups, stderr_reports, emitted,
    lj_pc, lj_rec, emit_count>>
expVars ==
  <<exp_pc, pulls, r_in, r_current, delta_sum,
    in_obs, out_obs, rate_obs>>

gaugeVars ==
  <<src_state, dst_state, g_pc, g_i, g_add, g_tmp, g_now, g_out, g_calls,
    g_limit, applied_src, applied_dst>>

\* Callers of the gauge callbacks: the periodic export thread and a second,
\* concurrent caller.
Callers == {"export", "flush"}

Range(seq) == {seq[i] : i \in 1..Len(seq)}

NoItem ==
  [src |-> None, dst |-> None, size |-> 0, status |-> None, latency_ms |-> 0]

\* The state in which the main thread is at the top of the while loop with
\* the totals at pk_in and pk_out, and the rate estimator's last pull read
\* the total lt at time lrc.
InitState(pk_in, pk_out, lrc, lt) ==
  /\ packets_in_total = pk_in
  /\ packets_out_total = pk_out
  /\ last_rate_calc = lrc
  /\ last_total = lt
  /\ main_pc = "loop"
  /\ iter = 0
  /\ req_count = 0
  /\ item = 0
  /\ cur = NoItem
  /\ stage = 0
  /\ batch_latency_ms = 0
  /\ trace_id = None
  /\ exc = FALSE
  /\ totals_at_start = <<pk_in, pk_out>>
  /\ spans = <<>>
  /\ span_stack = <<>>
  /\ ended = <<>>
  /\ lock_owner = NoThread
  /\ lock_count = 0
  /\ sink = <<>>
  /\ backups = <<>>
  /\ stderr_reports = 0
  /\ emitted = <<>>
  /\ lj_pc = [t \in Threads |-> "idle"]
  /\ lj_rec = [t \in Threads |-> LogRecord("", None, None, 0, 0, None, None)]
  /\ emit_count = [t \in Threads |-> 0]
  /\ exp_pc = "idle"
  /\ pulls = 0
  /\ r_in = 0
  /\ r_current = 0
  /\ delta_sum = lt
  /\ in_obs = <<>>
  /\ out_obs = <<>>
  /\ rate_obs = <<>>
  /\ src_state =
       [e \in Range(sources) |-> [packets |-> 0, bytes |-> 0, last |-> 0]]
  /\ dst_state = [e \in Range(destinations) |-> [packets |-> 0, bytes |-> 0]]
  /\ g_pc = [c \in Callers |-> "idle"]
  /\ g_i = [c \in Callers |-> 0]
  /\ g_add = [c \in Callers |-> [pk |-> 0, by |-> 0]]
  /\ g_tmp = [c \in Callers |-> 0]
  /\ g_now = [c \in Callers |-> 0]
  /\ g_out = [c \in Callers |-> <<>>]
  /\ g_calls = [c \in Callers |-> [src |-> 0, dst |-> 0]]
  /\ applied_src = [e \in Range(sources) |-> [packets |-> 0, bytes |-> 0]]
  /\ applied_dst =
       [e \in Range(destinations) |-> [packets |-> 0, bytes |-> 0]]

\* The state after the module-level statements (lines 43-131).
InitCommon == InitState(0, 0, 0, 0)

\* The log file is writable.
Init ==
  /\ InitCommon
  /\ sink_writable = TRUE
  /\ sink_base = 0
  /\ item_limit = MaxItems
  /\ noop_tracer = FALSE
  /\ g_limit = 0

\* The tracer is a no-op tracer (the SDK is disabled by its environment):
\* the spans it hands out carry no valid trace identity.
InitNoTrace ==
  /\ InitCommon
  /\ sink_writable = TRUE
  /\ sink_base \in SinkBases
  /\ item_limit = MaxItems
  /\ noop_tracer = TRUE
  /\ g_limit = 0

\* The log file may be unwritable (for example a full disk).
InitFault ==
  /\ InitCommon
  /\ sink_writable \in BOOLEAN
  /\ sink_base = 0
  /\ item_limit = MaxItems
  /\ noop_tracer = FALSE
  /\ g_limit = 0

\* The export thread pulls while the main thread runs.
InitPulled ==
  /\ InitCommon
  /\ sink_writable = TRUE
  /\ sink_base = 0
  /\ item_limit = MaxItemsPulled
  /\ noop_tracer = FALSE
  /\ g_limit = 0

\* Only the callers of log_json or of the gauge callbacks run.
InitCallers ==
  /\ InitCommon
  /\ sink_writable = TRUE
  /\ sink_base = 0
  /\ item_limit = 0
  /\ noop_tracer = FALSE
  /\ g_limit = MaxGaugeCalls

\* Only one caller of the gauge callbacks runs, one invocation at a time.
InitGaugeSeq ==
  /\ InitCommon
  /\ sink_writable = TRUE
  /\ sink_base = 0
  /\ item_limit = 0
  /\ noop_tracer = FALSE
  /\ g_limit = MaxGaugeCallsSeq

\* --------------------------------------------------------------- tracing
\* The span that is current in the main thread's context, 0 when none is.
CurrentSpan == IF span_stack = <<>> THEN 0 ELSE span_stack[Len(span_stack)]

\* tracer.start_as_current_span(name): a new Active span, child of the
\* current span when there is one (sharing its trace id), a root with a fresh
\* trace id otherwise.
NewSpan(name, fresh_tid) ==
  [id |-> Len(spans) + 1,
   name |-> name,
   trace_id |-> IF CurrentSpan = 0 THEN fresh_tid
                ELSE spans[CurrentSpan].trace_id,
   parent |-> CurrentSpan,
   attrs |-> <<>>,
   state |-> "Active"]

\* Entering the with block: the new span becomes the current span.
EnterSpan(name, fresh_tid) ==
  /\ spans' = Append(spans, NewSpan(name, fresh_tid))
  /\ span_stack' = Append(span_stack, Len(spans) + 1)
  /\ UNCHANGED ended

\* span.set_attribute(key, value) on span id.
SetAttribute(all, id, key, value) ==
  [all EXCEPT ![id].attrs = Append(@, <<key, value>>)]

\* trace.get_current_span().get_span_context().trace_id: 0 (invalid) when no
\* span is current.
CurrentTraceId == IF CurrentSpan = 0 THEN 0 ELSE spans[CurrentSpan].trace_id

\* The exit of the with block that opened the span at depth k of the context:
\* that span ends (it is Closed and handed to the span processor) and the
\* context the block was entered in is restored.
ExitSpan(k) ==
  /\ spans' = [spans EXCEPT ![span_stack[k]].state = "Closed"]
  /\ ended' = Append(ended, span_stack[k])
  /\ span_stack' = SubSeq(span_stack, 1, k - 1)

\* Depth of the root's and of a child's with block.
RootDepth == 1
ChildDepth == 2

\* ------------------------------------------------------------- main thread
\* Line 139 (and the sleep of line 185 that precedes every later iteration).
\* The exploration begins an iteration only while the items it drew fit in
\* item_limit together with those already processed.
LoopTop ==
  /\ main_pc = "loop"
  /\ \E n \in ReqCounts :
       /\ Len(emitted) + n <= item_limit
       /\ req_count' = n
  /\ iter' = iter + 1
  /\ main_pc' = "root"
  /\ UNCHANGED <<item_limit, noop_tracer, item, cur, stage, batch_latency_ms, trace_id,
                 exc, totals_at_start>>
  /\ UNCHANGED <<totalsVars, rateVars, spanVars, logVars, expVars>>
  /\ UNCHANGED gaugeVars

\* Lines 141-143: open the root span, set its hostname, zero the latency sum.
\* The span of a no-op tracer has the invalid span context, of trace id 0.
OpenRoot ==
  /\ main_pc = "root"
  /\ \E tid \in (IF noop_tracer THEN {0} ELSE TraceIds(iter)) :
       /\ spans' = SetAttribute(Append(spans, NewSpan("process_batch", tid)),
                                Len(spans) + 1, "hostname", "host1")
       /\ span_stack' = Append(span_stack, Len(spans) + 1)
  /\ batch_latency_ms' = 0
  /\ item' = 0
  /\ totals_at_start' = <<packets_in_total, packets_out_total>>
  /\ main_pc' = "for"
  /\ UNCHANGED <<iter, item_limit, noop_tracer, req_count, cur, stage, trace_id, exc, ended>>
  /\ UNCHANGED <<totalsVars, rateVars, logVars, expVars>>
  /\ UNCHANGED gaugeVars

\* Lines 145-151: the next item's random draws, or the end of the for loop.
ForNext ==
  /\ main_pc = "for"
  /\ IF item < req_count
       THEN /\ \E it \in ItemInputs : cur' = it
            /\ stage' = 1
            /\ main_pc' = "child_open"
       ELSE /\ main_pc' = "attrs"
            /\ UNCHANGED <<cur, stage>>
  /\ UNCHANGED <<iter, item_limit, noop_tracer, req_count, item, batch_latency_ms, trace_id, exc,
                 totals_at_start>>
  /\ UNCHANGED <<totalsVars, rateVars, spanVars, logVars, expVars>>
  /\ UNCHANGED gaugeVars

\* Lines 152, 154, 156: enter the child span of the current stage.
OpenChild ==
  /\ main_pc = "child_open"
  /\ EnterSpan(StageNames[stage], 0)
  /\ main_pc' = "child_body"
  /\ UNCHANGED <<iter, item_limit, noop_tracer, req_count, item, cur, stage,
                 batch_latency_ms, trace_id, exc, totals_at_start>>
  /\ UNCHANGED <<totalsVars, rateVars, logVars, expVars>>
  /\ UNCHANGED gaugeVars

\* The child span is not opened by a with block: an exception leaves it
\* open.
RaiseLeavesChildOpen ==
  /\ main_pc = "child_body"
  /\ exc' = TRUE
  /\ main_pc' = "root_exit"
  /\ UNCHANGED <<iter, item_limit, noop_tracer, req_count, item, cur, stage,
                 batch_latency_ms, trace_id, totals_at_start>>
  /\ UNCHANGED <<totalsVars, rateVars, logVars, expVars, spanVars>>
  /\ UNCHANGED gaugeVars

\* Lines 153, 155, 157: the sleep is interrupted by an exception (for
\* example KeyboardInterrupt). The exception leaves the child's with block,
\* whose exit ends the child span, and goes on unwinding in the root's block.
Raise ==
  /\ main_pc = "child_body"
  /\ exc' = TRUE
  /\ ExitSpan(ChildDepth)
  /\ main_pc' = "root_exit"
  /\ UNCHANGED <<iter, item_limit, noop_tracer, req_count, item, cur, stage, batch_latency_ms,
                 trace_id, totals_at_start>>
  /\ UNCHANGED <<totalsVars, rateVars, logVars, expVars>>
  /\ UNCHANGED gaugeVars

\* Lines 153, 155, 157: the sleep returns and the child's with block exits.
ChildExit ==
  /\ main_pc = "child_body"
  /\ ExitSpan(ChildDepth)
  /\ IF stage < Len(StageNames)
       THEN main_pc' = "child_open" /\ stage' = stage + 1
       ELSE main_pc' = "inc_in" /\ UNCHANGED stage
  /\ UNCHANGED <<iter, item_limit, noop_tracer, req_count, item, cur, batch_latency_ms, trace_id,
                 exc, totals_at_start>>
  /\ UNCHANGED <<totalsVars, rateVars, logVars, expVars>>
  /\ UNCHANGED gaugeVars

\* Line 162 followed by a per-entity count of the item's packets in
\* src_state.
IncInCountsEntity ==
  /\ main_pc = "inc_in"
  /\ batch_latency_ms' = batch_latency_ms + cur.latency_ms
  /\ packets_in_total' = AddPackets(packets_in_total, cur.size)
  /\ src_state' = [src_state EXCEPT ![cur.src].packets = @ + PacketsOf(cur.size)]
  /\ main_pc' = "inc_out"
  /\ UNCHANGED packets_out_total
  /\ UNCHANGED <<iter, item_limit, noop_tracer, req_count, item, cur, stage, trace_id, exc,
                 totals_at_start>>
  /\ UNCHANGED <<rateVars, spanVars, logVars, expVars>>
  /\ UNCHANGED <<dst_state, g_pc, g_i, g_add, g_tmp, g_now, g_out, g_calls,
                 g_limit, applied_src, applied_dst>>

\* Lines 158-159 (the item's latency, added to the batch's) and line 162.
IncIn ==
  /\ main_pc = "inc_in"
  /\ batch_latency_ms' = batch_latency_ms + cur.latency_ms
  /\ packets_in_total' = AddPackets(packets_in_total, cur.size)
  /\ main_pc' = "inc_out"
  /\ UNCHANGED packets_out_total
  /\ UNCHANGED <<iter, item_limit, noop_tracer, req_count, item, cur, stage, trace_id, exc,
                 totals_at_start>>
  /\ UNCHANGED <<rateVars, spanVars, logVars, expVars>>
  /\ UNCHANGED gaugeVars

\* Line 163.
IncOut ==
  /\ main_pc = "inc_out"
  /\ packets_out_total' = AddPackets(packets_out_total, cur.size)
  /\ main_pc' = "log"
  /\ UNCHANGED packets_in_total
  /\ UNCHANGED <<iter, item_limit, noop_tracer, req_count, item, cur, stage, batch_latency_ms,
                 trace_id, exc, totals_at_start>>
  /\ UNCHANGED <<rateVars, spanVars, logVars, expVars>>
  /\ UNCHANGED gaugeVars

\* The trace id is read where no span is current.
GetTraceIdNoSpan == FormatTraceId(0)

\* Lines 166-167: the trace id of the current span.
GetTraceId == FormatTraceId(CurrentTraceId)

\* Lines 166-180: read the trace id, build the record and call log_json.
MainLogCall ==
  /\ main_pc = "log"
  /\ lj_pc["main"] = "idle"
  /\ trace_id' = GetTraceId
  /\ \E ts \in TsValues :
       lj_rec' = [lj_rec EXCEPT !["main"] =
                    LogRecord(ts, cur.src, cur.dst, cur.size, cur.latency_ms,
                              cur.status, trace_id')]
  /\ lj_pc' = [lj_pc EXCEPT !["main"] = "acquire"]
  /\ main_pc' = "in_log"
  /\ UNCHANGED <<iter, item_limit, noop_tracer, req_count, item, cur, stage, batch_latency_ms,
                 exc, totals_at_start>>
  /\ UNCHANGED <<lock_owner, lock_count, sink, sink_writable, sink_base, backups, stderr_reports,
                 emitted, emit_count>>
  /\ UNCHANGED <<totalsVars, rateVars, spanVars, expVars>>
  /\ UNCHANGED gaugeVars

\* log_json returned to line 180: the for loop goes on.
MainLogReturn ==
  /\ main_pc = "in_log"
  /\ lj_pc["main"] = "returned"
  /\ lj_pc' = [lj_pc EXCEPT !["main"] = "idle"]
  /\ item' = item + 1
  /\ main_pc' = "for"
  /\ UNCHANGED <<iter, item_limit, noop_tracer, req_count, cur, stage, batch_latency_ms, trace_id,
                 exc, totals_at_start>>
  /\ UNCHANGED <<lock_owner, lock_count, sink, sink_writable, sink_base, backups, stderr_reports,
                 emitted, lj_rec, emit_count>>
  /\ UNCHANGED <<totalsVars, rateVars, spanVars, expVars>>
  /\ UNCHANGED gaugeVars

\* Line 183 setting the last item's latency_ms instead of the batch's sum.
SetBatchAttrsLastLatency ==
  /\ main_pc = "attrs"
  /\ spans' =
       SetAttribute(SetAttribute(spans, CurrentSpan, "batch.size", req_count),
                    CurrentSpan, "batch.latency_ms", cur.latency_ms)
  /\ main_pc' = "root_exit"
  /\ UNCHANGED <<iter, item_limit, noop_tracer, req_count, item, cur, stage,
                 batch_latency_ms, trace_id, exc, totals_at_start, span_stack,
                 ended>>
  /\ UNCHANGED <<totalsVars, rateVars, logVars, expVars>>
  /\ UNCHANGED gaugeVars

\* Lines 182-183.
SetBatchAttrs ==
  /\ main_pc = "attrs"
  /\ spans' =
       SetAttribute(SetAttribute(spans, CurrentSpan, "batch.size", req_count),
                    CurrentSpan, "batch.latency_ms", batch_latency_ms)
  /\ main_pc' = "root_exit"
  /\ UNCHANGED <<iter, item_limit, noop_tracer, req_count, item, cur, stage,
                 batch_latency_ms, trace_id, exc, totals_at_start, span_stack,
                 ended>>
  /\ UNCHANGED <<totalsVars, rateVars, logVars, expVars>>
  /\ UNCHANGED gaugeVars

\* The exit of the root's with block (line 141), normal or unwinding. An
\* exception leaves the while loop: nothing in it catches.
RootExit ==
  /\ main_pc = "root_exit"
  /\ ExitSpan(RootDepth)
  /\ main_pc' = IF exc THEN "aborted" ELSE "loop"
  /\ UNCHANGED <<iter, item_limit, noop_tracer, req_count, item, cur, stage, batch_latency_ms,
                 trace_id, exc, totals_at_start>>
  /\ UNCHANGED <<totalsVars, rateVars, logVars, expVars>>
  /\ UNCHANGED gaugeVars

MainStep ==
  \/ LoopTop \/ OpenRoot \/ ForNext \/ OpenChild \/ Raise
  \/ ChildExit \/ IncIn \/ IncOut \/ MainLogCall
  \/ MainLogReturn \/ SetBatchAttrs \/ RootExit

\* ---------------------------------------------------------------- log_json
\* handler.acquire() of an RLock: free, or already held by the caller.
CanAcquire(t) == lock_owner = NoThread \/ lock_owner = t

\* Line 127.
LogAcquire(t) ==
  /\ lj_pc[t] = "acquire"
  /\ CanAcquire(t)
  /\ lock_owner' = t
  /\ lock_count' = lock_count + 1
  /\ lj_pc' = [lj_pc EXCEPT ![t] = "info"]
  /\ UNCHANGED <<sink, sink_writable, sink_base, backups, stderr_reports, emitted, lj_rec,
                 emit_count>>
  /\ UNCHANGED <<totalsVars, rateVars, mainVars, spanVars, expVars>>
  /\ UNCHANGED gaugeVars

\* Size in bytes of a sequence of chunks.
RECURSIVE Bytes(_)
Bytes(chunks) ==
  IF chunks = <<>> THEN 0 ELSE Len(Head(chunks)) + Bytes(Tail(chunks))

\* stream.tell() at the end of the log file.
Tell == sink_base + Bytes(sink)

\* RotatingFileHandler.shouldRollover, for msg the formatted record with its
\* terminator.
ShouldRollover(msg) == Tell + Len(msg) >= MaxBytes

\* RotatingFileHandler.doRollover: log.1 becomes log.2 (an older log.2 is
\* removed) and the log file becomes log.1.
RolledBackups ==
  LET all == <<[base |-> sink_base, chunks |-> sink]>> \o backups
  IN  IF Len(all) > BackupCount THEN SubSeq(all, 1, BackupCount) ELSE all

\* StreamHandler.emit writing a record without the terminator.
FormatNoTerminator(r) == JsonDumps(r)

\* What StreamHandler.emit hands to stream.write: msg + self.terminator.
Format(r) == JsonDumps(r) \o "\n"

\* Line 129: json.dumps, which raises on a record it cannot encode (the
\* exception leaves the try block through finally); then logger.info hands
\* the message to the handler, which takes its lock again, rolls the file
\* over when the message would take it to maxBytes (whether or not the file
\* can be written: the rollover renames it and opens an empty one), and
\* writes the message and its terminator to the file in one write. A
\* failing write is caught by the handler (handleError prints a traceback
\* to stderr), nothing is written, and the handler's own hold of the lock
\* is released.
LoggerInfo(t) ==
  /\ lj_pc[t] = "info"
  /\ CanAcquire(t)
  /\ IF ~Serializable(lj_rec[t])
       THEN /\ lj_pc' = [lj_pc EXCEPT ![t] = "release_raise"]
            /\ UNCHANGED <<sink, sink_base, backups, lock_count,
                           stderr_reports>>
       ELSE /\ IF ShouldRollover(Format(lj_rec[t]))
                 THEN /\ backups' = RolledBackups
                      /\ sink_base' = 0
                      /\ sink' = IF sink_writable
                                   THEN <<Format(lj_rec[t])>> ELSE <<>>
                 ELSE /\ sink' = IF sink_writable
                                   THEN Append(sink, Format(lj_rec[t]))
                                   ELSE sink
                      /\ UNCHANGED <<sink_base, backups>>
            /\ IF sink_writable
                 THEN /\ lock_count' = lock_count + 1
                      /\ lj_pc' = [lj_pc EXCEPT ![t] = "flush"]
                      /\ UNCHANGED stderr_reports
                 ELSE /\ stderr_reports' = stderr_reports + 1
                      /\ lj_pc' = [lj_pc EXCEPT ![t] = "release"]
                      /\ UNCHANGED lock_count
  /\ UNCHANGED <<lock_owner, sink_writable, emitted, lj_rec, emit_count>>
  /\ UNCHANGED <<totalsVars, rateVars, mainVars, spanVars, expVars>>
  /\ UNCHANGED gaugeVars

\* Line 129, the handler after its write: it flushes the stream and releases
\* its own hold of the lock (Handler.handle).
HandlerFlush(t) ==
  /\ lj_pc[t] = "flush"
  /\ lock_count' = lock_count - 1
  /\ lj_pc' = [lj_pc EXCEPT ![t] = "release"]
  /\ UNCHANGED <<lock_owner, sink, sink_writable, sink_base, backups,
                 stderr_reports, emitted, lj_rec, emit_count>>
  /\ UNCHANGED <<totalsVars, rateVars, mainVars, spanVars, expVars>>
  /\ UNCHANGED gaugeVars

\* Lines 128-131 without try/finally: handler.release() is skipped when
\* line 129 raises.
LogReleaseNoFinally(t) ==
  /\ lj_pc[t] \in {"release", "release_raise"}
  /\ IF lj_pc[t] = "release"
       THEN /\ lock_count' = lock_count - 1
            /\ lock_owner' = IF lock_count = 1 THEN NoThread ELSE lock_owner
            /\ emitted' = Append(emitted, lj_rec[t])
            /\ lj_pc' = [lj_pc EXCEPT ![t] = "returned"]
       ELSE /\ lj_pc' = [lj_pc EXCEPT ![t] = "raised"]
            /\ UNCHANGED <<lock_count, lock_owner, emitted>>
  /\ UNCHANGED <<sink, sink_writable, sink_base, backups, stderr_reports, lj_rec, emit_count>>
  /\ UNCHANGED <<totalsVars, rateVars, mainVars, spanVars, expVars>>
  /\ UNCHANGED gaugeVars

\* Lines 130-131: handler.release() in the finally clause; then log_json
\* returns normally, or the exception of line 129 goes on to the caller.
LogRelease(t) ==
  /\ lj_pc[t] \in {"release", "release_raise"}
  /\ lock_count' = lock_count - 1
  /\ lock_owner' = IF lock_count = 1 THEN NoThread ELSE lock_owner
  /\ IF lj_pc[t] = "release"
       THEN /\ emitted' = Append(emitted, lj_rec[t])
            /\ lj_pc' = [lj_pc EXCEPT ![t] = "returned"]
       ELSE /\ lj_pc' = [lj_pc EXCEPT ![t] = "raised"]
            /\ UNCHANGED emitted
  /\ UNCHANGED <<sink, sink_writable, sink_base, backups, stderr_reports, lj_rec, emit_count>>
  /\ UNCHANGED <<totalsVars, rateVars, mainVars, spanVars, expVars>>
  /\ UNCHANGED gaugeVars

LogJsonStep(t) ==
  \/ LogAcquire(t) \/ LoggerInfo(t) \/ HandlerFlush(t) \/ LogRelease(t)

\* ---------------------------------------------------- metrics export thread
\* Observation(value, {"hostname": "host1"})
Observation(value) == [value |-> value, hostname |-> "host1"]

\* Lines 47-48.
PacketsInCb ==
  /\ exp_pc = "idle"
  /\ pulls < MaxPulls
  /\ pulls' = pulls + 1
  /\ in_obs' = Append(in_obs, Observation(packets_in_total))
  /\ UNCHANGED <<exp_pc, r_in, r_current, delta_sum, out_obs, rate_obs>>
  /\ UNCHANGED <<totalsVars, rateVars, mainVars, spanVars, logVars>>
  /\ UNCHANGED gaugeVars

\* Lines 50-51.
PacketsOutCb ==
  /\ exp_pc = "idle"
  /\ pulls < MaxPulls
  /\ pulls' = pulls + 1
  /\ out_obs' = Append(out_obs, Observation(packets_out_total))
  /\ UNCHANGED <<exp_pc, r_in, r_current, delta_sum, in_obs, rate_obs>>
  /\ UNCHANGED <<totalsVars, rateVars, mainVars, spanVars, logVars>>
  /\ UNCHANGED gaugeVars

\* Line 63 without the floor.
ElapsedUnclamped(now, last) == now - last

\* Line 63.
Elapsed(now, last) == Max(ElapsedFloor, now - last)

\* Line 65 dividing the total instead of its growth.
RateOfTotal(current, last, elapsed) ==
  [num |-> current * TicksPerSecond, den |-> elapsed]

\* Line 65 with the subtraction reversed.
RateReversed(current, last, elapsed) ==
  [num |-> (last - current) * TicksPerSecond, den |-> elapsed]

\* Line 65: packets per second, as the exact fraction num / den.
Rate(current, last, elapsed) ==
  [num |-> (current - last) * TicksPerSecond, den |-> elapsed]

\* Line 66 written as last_total = packets_in_total + packets_out_total: the
\* totals are read again when the baseline is stored.
NewLastTotalReread(current, last) == packets_in_total + packets_out_total

\* Line 66: the value packet_rate_cb stores in last_total.
NewLastTotal(current, last) == current

\* Line 64: the load of packets_in_total.
RateReadIn ==
  /\ exp_pc = "idle"
  /\ pulls < MaxPulls
  /\ pulls' = pulls + 1
  /\ r_in' = packets_in_total
  /\ exp_pc' = "rate_read_out"
  /\ UNCHANGED <<r_current, delta_sum, in_obs, out_obs, rate_obs>>
  /\ UNCHANGED <<totalsVars, rateVars, mainVars, spanVars, logVars>>
  /\ UNCHANGED gaugeVars

\* Line 64: the load of packets_out_total and the addition.
RateReadOut ==
  /\ exp_pc = "rate_read_out"
  /\ r_current' = r_in + packets_out_total
  /\ exp_pc' = "rate_update"
  /\ UNCHANGED <<pulls, r_in, delta_sum, in_obs, out_obs, rate_obs>>
  /\ UNCHANGED <<totalsVars, rateVars, mainVars, spanVars, logVars>>
  /\ UNCHANGED gaugeVars

\* Lines 62-63 and 65-68. The reading `now` of line 62 is an input that no
\* state of the program constrains, and elapsed depends on nothing but it and
\* last_rate_calc, which only this callback writes: both are drawn here,
\* where they are first used. The locals die with the return.
RateUpdateAt(times) ==
  /\ exp_pc = "rate_update"
  /\ \E now \in times :
       /\ rate_obs' =
            <<Observation(Rate(r_current, last_total,
                               Elapsed(now, last_rate_calc)))>>
       /\ last_rate_calc' = now
  /\ last_total' = NewLastTotal(r_current, last_total)
  /\ delta_sum' = delta_sum + (r_current - last_total)
  /\ exp_pc' = "idle"
  /\ r_in' = 0 /\ r_current' = 0
  /\ UNCHANGED <<pulls, in_obs, out_obs>>
  /\ UNCHANGED <<totalsVars, mainVars, spanVars, logVars>>
  /\ UNCHANGED gaugeVars

RateUpdate == RateUpdateAt(Times)

\* ----------------------------------------------------------- specifications
\* The main thread alone.
Next == MainStep \/ LogJsonStep("main")

\* The program with a writable log file.
Spec == Init /\ [][Next]_vars

\* The program with no valid span context.
SpecNoTrace == InitNoTrace /\ [][Next]_vars

\* The program with a log file that may be unwritable.
SpecFault == InitFault /\ [][Next]_vars

\* The main thread and the export thread's pulls of packets_in_cb and
\* packets_out_cb.
NextTotals == Next \/ PacketsInCb \/ PacketsOutCb

SpecTotals == InitPulled /\ [][NextTotals]_vars

\* The main thread and the export thread's pulls of packet_rate_cb.
NextRate == Next \/ RateReadIn \/ RateReadOut \/ RateUpdate

SpecRate == InitPulled /\ [][NextRate]_vars

\* The rate estimator in a later state of the program: the main thread is at
\* an iteration boundary with both totals at pk, the last pull read the total
\* lt at time t0, and the export thread pulls packet_rate_cb at times that
\* are whole seconds apart.
SecondsAtPull == {0, 1, 5}
TotalsAtPull == {50, 75, 100}
BaselinesAtPull == {0, 100}
EstimatorTimes == {t * TicksPerSecond : t \in SecondsAtPull}

InitEstimator ==
  /\ \E pk \in TotalsAtPull, lt \in BaselinesAtPull, t0 \in EstimatorTimes :
       /\ lt <= 2 * pk
       /\ InitState(pk, pk, t0, lt)
  /\ sink_writable = TRUE
  /\ sink_base = 0
  /\ item_limit = 0
  /\ noop_tracer = FALSE
  /\ g_limit = 0

NextEstimator == RateReadIn \/ RateReadOut \/ RateUpdateAt(EstimatorTimes)

SpecEstimator == InitEstimator /\ [][NextEstimator]_vars

\* ------------------------------------------------------- concurrent emitters
\* The k-th record of emitter e.
EmitterRecord(e, k) ==
  LogRecord("2024-01-01T00:00:00.000001Z",
            IF e = "e1" THEN sources[1] ELSE sources[2], destinations[1],
            200 + k, 0, "ok", None)

\* The k-th record of emitter e with a value json.dumps cannot encode.
BadRecord(e, k) == [EmitterRecord(e, k) EXCEPT !.msg = Unserializable]

\* A caller of log_json other than the main loop calls it (line 126), with
\* a record that json.dumps can encode or (bad) cannot.
EmitterCallOf(e, bad) ==
  /\ lj_pc[e] = "idle"
  /\ emit_count[e] < MaxEmits
  /\ emit_count' = [emit_count EXCEPT ![e] = @ + 1]
  /\ lj_rec' = [lj_rec EXCEPT ![e] =
                  IF bad THEN BadRecord(e, emit_count[e] + 1)
                         ELSE EmitterRecord(e, emit_count[e] + 1)]
  /\ lj_pc' = [lj_pc EXCEPT ![e] = "acquire"]
  /\ UNCHANGED <<lock_owner, lock_count, sink, sink_writable, sink_base, backups, stderr_reports,
                 emitted>>
  /\ UNCHANGED <<totalsVars, rateVars, mainVars, spanVars, expVars>>
  /\ UNCHANGED gaugeVars

EmitterCall(e) == EmitterCallOf(e, FALSE)

\* log_json returned to that caller, or raised to it.
EmitterReturn(e) ==
  /\ e \in Emitters
  /\ lj_pc[e] \in {"returned", "raised"}
  /\ lj_pc' = [lj_pc EXCEPT ![e] = "idle"]
  /\ UNCHANGED <<lock_owner, lock_count, sink, sink_writable, sink_base, backups, stderr_reports,
                 emitted, lj_rec, emit_count>>
  /\ UNCHANGED <<totalsVars, rateVars, mainVars, spanVars, expVars>>
  /\ UNCHANGED gaugeVars

\* ---------------------------------------------------------- gauge callbacks
SrcPacketsLo == 50
SrcPacketsHi == 200
DstPacketsLo == 40
DstPacketsHi == 160
ByteSizeLo == 64
ByteSizeHi == 1200

\* Pairs <<add_pk, per-packet size>> drawn by random.randint: the two
\* corners of the ranges.
SrcDraws == {<<SrcPacketsLo, ByteSizeLo>>, <<SrcPacketsHi, ByteSizeHi>>}
DstDraws == {<<DstPacketsLo, ByteSizeLo>>, <<DstPacketsHi, ByteSizeHi>>}

\* int(time.time()) of line 80, in seconds since interpreter start.
GaugeNows == {1, 2}

\* Line 84 adding the per-packet size to the packet count.
GaugeDeltasSum(add_pk, size) == [pk |-> add_pk, by |-> add_pk + size]

\* Lines 83-84 and 96-97: add_pk and add_by.
GaugeDeltas(add_pk, size) == [pk |-> add_pk, by |-> add_pk * size]

\* The value `x += add` stores, from the value it loaded.
Accumulate(loaded, add) == loaded + add

\* Lines 88-89 and 100-101 reporting add_pk and add_by.
ReportedDelta(cumulative, add) == add

\* The value an observation reports, from the entity's cumulative value read
\* at the time of the report and this pull's increment.
Reported(cumulative, add) == cumulative

\* Lines 88-90.
SrcObservation(value, e, metric) ==
  [value |-> value, hostname |-> "host1", src |-> e, metric |-> metric]

\* Lines 100-101.
DstObservation(value, e, metric) ==
  [value |-> value, hostname |-> "host1", dst |-> e, metric |-> metric]

\* Lines 80-82: an invocation of src_gauge_cb starts.
SrcStart(c, nows) ==
  /\ g_pc[c] = "idle"
  /\ g_calls[c].src < g_limit
  /\ UNCHANGED g_limit
  /\ g_calls' = [g_calls EXCEPT ![c].src = @ + 1]
  /\ \E now \in nows : g_now' = [g_now EXCEPT ![c] = now]
  /\ g_out' = [g_out EXCEPT ![c] = <<>>]
  /\ g_i' = [g_i EXCEPT ![c] = 1]
  /\ g_pc' = [g_pc EXCEPT ![c] = "s_load_pk"]
  /\ UNCHANGED <<src_state, dst_state, g_add, g_tmp, applied_src, applied_dst>>
  /\ UNCHANGED <<totalsVars, rateVars, mainVars, spanVars, logVars, expVars>>

\* Lines 83-85: the two random draws, and the load of the entity's
\* packets by `+=`.
SrcLoadPackets(c, draws) ==
  /\ g_pc[c] = "s_load_pk"
  /\ \E dr \in draws : g_add' = [g_add EXCEPT ![c] = GaugeDeltas(dr[1], dr[2])]
  /\ g_tmp' = [g_tmp EXCEPT ![c] = src_state[sources[g_i[c]]].packets]
  /\ g_pc' = [g_pc EXCEPT ![c] = "s_store_pk"]
  /\ UNCHANGED <<src_state, dst_state, g_i, g_now, g_out, g_calls, g_limit, applied_src, applied_dst>>
  /\ UNCHANGED <<totalsVars, rateVars, mainVars, spanVars, logVars, expVars>>

\* Line 85: the store of `+=`.
SrcStorePackets(c) ==
  /\ g_pc[c] = "s_store_pk"
  /\ src_state' = [src_state EXCEPT ![sources[g_i[c]]].packets = Accumulate(g_tmp[c], g_add[c].pk)]
  /\ applied_src' = [applied_src EXCEPT ![sources[g_i[c]]].packets = @ + g_add[c].pk]
  /\ g_pc' = [g_pc EXCEPT ![c] = "s_load_by"]
  /\ UNCHANGED <<dst_state, g_i, g_add, g_tmp, g_now, g_out, g_calls, g_limit, applied_dst>>
  /\ UNCHANGED <<totalsVars, rateVars, mainVars, spanVars, logVars, expVars>>

\* Line 86: the load of the entity's bytes by `+=`.
SrcLoadBytes(c) ==
  /\ g_pc[c] = "s_load_by"
  /\ g_tmp' = [g_tmp EXCEPT ![c] = src_state[sources[g_i[c]]].bytes]
  /\ g_pc' = [g_pc EXCEPT ![c] = "s_store_by"]
  /\ UNCHANGED <<src_state, dst_state, g_i, g_add, g_now, g_out, g_calls, g_limit, applied_src, applied_dst>>
  /\ UNCHANGED <<totalsVars, rateVars, mainVars, spanVars, logVars, expVars>>

\* Line 86: the store of `+=`.
SrcStoreBytes(c) ==
  /\ g_pc[c] = "s_store_by"
  /\ src_state' = [src_state EXCEPT ![sources[g_i[c]]].bytes = Accumulate(g_tmp[c], g_add[c].by)]
  /\ applied_src' = [applied_src EXCEPT ![sources[g_i[c]]].bytes = @ + g_add[c].by]
  /\ g_pc' = [g_pc EXCEPT ![c] = "s_store_last"]
  /\ UNCHANGED <<dst_state, g_i, g_add, g_tmp, g_now, g_out, g_calls, g_limit, applied_dst>>
  /\ UNCHANGED <<totalsVars, rateVars, mainVars, spanVars, logVars, expVars>>

\* Line 87.
SrcStoreLast(c) ==
  /\ g_pc[c] = "s_store_last"
  /\ src_state' = [src_state EXCEPT ![sources[g_i[c]]].last = g_now[c]]
  /\ g_pc' = [g_pc EXCEPT ![c] = "s_obs_pk"]
  /\ UNCHANGED <<dst_state, g_i, g_add, g_tmp, g_now, g_out, g_calls, g_limit, applied_src, applied_dst>>
  /\ UNCHANGED <<totalsVars, rateVars, mainVars, spanVars, logVars, expVars>>

\* Line 88.
SrcObsPackets(c) ==
  /\ g_pc[c] = "s_obs_pk"
  /\ g_out' = [g_out EXCEPT ![c] =
                 Append(@, SrcObservation(Reported(src_state[sources[g_i[c]]].packets, g_add[c].pk),
                                           sources[g_i[c]], "packets"))]
  /\ g_pc' = [g_pc EXCEPT ![c] = "s_obs_by"]
  /\ UNCHANGED <<src_state, dst_state, g_i, g_add, g_tmp, g_now, g_calls, g_limit, applied_src, applied_dst>>
  /\ UNCHANGED <<totalsVars, rateVars, mainVars, spanVars, logVars, expVars>>

\* Line 89.
SrcObsBytes(c) ==
  /\ g_pc[c] = "s_obs_by"
  /\ g_out' = [g_out EXCEPT ![c] =
                 Append(@, SrcObservation(Reported(src_state[sources[g_i[c]]].bytes, g_add[c].by),
                                           sources[g_i[c]], "bytes"))]
  /\ g_pc' = [g_pc EXCEPT ![c] = "s_obs_last"]
  /\ UNCHANGED <<src_state, dst_state, g_i, g_add, g_tmp, g_now, g_calls, g_limit, applied_src, applied_dst>>
  /\ UNCHANGED <<totalsVars, rateVars, mainVars, spanVars, logVars, expVars>>

\* Lines 90-91: the last observation of the entity; then the next
\* entity, or the return of the list, with which the locals die.
SrcObsLast(c) ==
  /\ g_pc[c] = "s_obs_last"
  /\ g_out' = [g_out EXCEPT ![c] =
                 Append(@, SrcObservation(src_state[sources[g_i[c]]].last, sources[g_i[c]], "last"))]
  /\ IF g_i[c] < Len(sources)
       THEN /\ g_i' = [g_i EXCEPT ![c] = @ + 1]
            /\ g_pc' = [g_pc EXCEPT ![c] = "s_load_pk"]
            /\ UNCHANGED <<g_add, g_tmp, g_now>>
       ELSE /\ g_i' = [g_i EXCEPT ![c] = 0]
            /\ g_pc' = [g_pc EXCEPT ![c] = "idle"]
            /\ g_add' = [g_add EXCEPT ![c] = [pk |-> 0, by |-> 0]]
            /\ g_tmp' = [g_tmp EXCEPT ![c] = 0]
            /\ g_now' = [g_now EXCEPT ![c] = 0]
  /\ UNCHANGED <<src_state, dst_state, g_calls, g_limit, applied_src,
                 applied_dst>>
  /\ UNCHANGED <<totalsVars, rateVars, mainVars, spanVars, logVars, expVars>>

\* Lines 94-95: an invocation of dst_gauge_cb starts.
DstStart(c, nows) ==
  /\ g_pc[c] = "idle"
  /\ g_calls[c].dst < g_limit
  /\ UNCHANGED g_limit
  /\ g_calls' = [g_calls EXCEPT ![c].dst = @ + 1]
  /\ \E now \in nows : g_now' = [g_now EXCEPT ![c] = now]
  /\ g_out' = [g_out EXCEPT ![c] = <<>>]
  /\ g_i' = [g_i EXCEPT ![c] = 1]
  /\ g_pc' = [g_pc EXCEPT ![c] = "d_load_pk"]
  /\ UNCHANGED <<src_state, dst_state, g_add, g_tmp, applied_src, applied_dst>>
  /\ UNCHANGED <<totalsVars, rateVars, mainVars, spanVars, logVars, expVars>>

\* Lines 96-98: the two random draws, and the load of the entity's
\* packets by `+=`.
DstLoadPackets(c, draws) ==
  /\ g_pc[c] = "d_load_pk"
  /\ \E dr \in draws : g_add' = [g_add EXCEPT ![c] = GaugeDeltas(dr[1], dr[2])]
  /\ g_tmp' = [g_tmp EXCEPT ![c] = dst_state[destinations[g_i[c]]].packets]
  /\ g_pc' = [g_pc EXCEPT ![c] = "d_store_pk"]
  /\ UNCHANGED <<src_state, dst_state, g_i, g_now, g_out, g_calls, g_limit, applied_src, applied_dst>>
  /\ UNCHANGED <<totalsVars, rateVars, mainVars, spanVars, logVars, expVars>>

\* Line 98: the store of `+=`.
DstStorePackets(c) ==
  /\ g_pc[c] = "d_store_pk"
  /\ dst_state' = [dst_state EXCEPT ![destinations[g_i[c]]].packets = Accumulate(g_tmp[c], g_add[c].pk)]
  /\ applied_dst' = [applied_dst EXCEPT ![destinations[g_i[c]]].packets = @ + g_add[c].pk]
  /\ g_pc' = [g_pc EXCEPT ![c] = "d_load_by"]
  /\ UNCHANGED <<src_state, g_i, g_add, g_tmp, g_now, g_out, g_calls, g_limit, applied_src>>
  /\ UNCHANGED <<totalsVars, rateVars, mainVars, spanVars, logVars, expVars>>

\* Line 99: the load of the entity's bytes by `+=`.
DstLoadBytes(c) ==
  /\ g_pc[c] = "d_load_by"
  /\ g_tmp' = [g_tmp EXCEPT ![c] = dst_state[destinations[g_i[c]]].bytes]
  /\ g_pc' = [g_pc EXCEPT ![c] = "d_store_by"]
  /\ UNCHANGED <<src_state, dst_state, g_i, g_add, g_now, g_out, g_calls, g_limit, applied_src, applied_dst>>
  /\ UNCHANGED <<totalsVars, rateVars, mainVars, spanVars, logVars, expVars>>

\* Line 99: the store of `+=`.
DstStoreBytes(c) ==
  /\ g_pc[c] = "d_store_by"
  /\ dst_state' = [dst_state EXCEPT ![destinations[g_i[c]]].bytes = Accumulate(g_tmp[c], g_add[c].by)]
  /\ applied_dst' = [applied_dst EXCEPT ![destinations[g_i[c]]].bytes = @ + g_add[c].by]
  /\ g_pc' = [g_pc EXCEPT ![c] = "d_obs_pk"]
  /\ UNCHANGED <<src_state, g_i, g_add, g_tmp, g_now, g_out, g_calls, g_limit, applied_src>>
  /\ UNCHANGED <<totalsVars, rateVars, mainVars, spanVars, logVars, expVars>>

\* Line 100.
DstObsPackets(c) ==
  /\ g_pc[c] = "d_obs_pk"
  /\ g_out' = [g_out EXCEPT ![c] =
                 Append(@, DstObservation(Reported(dst_state[destinations[g_i[c]]].packets, g_add[c].pk),
                                           destinations[g_i[c]], "packets"))]
  /\ g_pc' = [g_pc EXCEPT ![c] = "d_obs_by"]
  /\ UNCHANGED <<src_state, dst_state, g_i, g_add, g_tmp, g_now, g_calls, g_limit, applied_src, applied_dst>>
  /\ UNCHANGED <<totalsVars, rateVars, mainVars, spanVars, logVars, expVars>>

\* Lines 101-102: the last observation of the entity; then the next
\* entity, or the return of the list, with which the locals die.
DstObsBytes(c) ==
  /\ g_pc[c] = "d_obs_by"
  /\ g_out' = [g_out EXCEPT ![c] =
                 Append(@, DstObservation(Reported(dst_state[destinations[g_i[c]]].bytes, g_add[c].by),
                                           destinations[g_i[c]], "bytes"))]
  /\ IF g_i[c] < Len(destinations)
       THEN /\ g_i' = [g_i EXCEPT ![c] = @ + 1]
            /\ g_pc' = [g_pc EXCEPT ![c] = "d_load_pk"]
            /\ UNCHANGED <<g_add, g_tmp, g_now>>
       ELSE /\ g_i' = [g_i EXCEPT ![c] = 0]
            /\ g_pc' = [g_pc EXCEPT ![c] = "idle"]
            /\ g_add' = [g_add EXCEPT ![c] = [pk |-> 0, by |-> 0]]
            /\ g_tmp' = [g_tmp EXCEPT ![c] = 0]
            /\ g_now' = [g_now EXCEPT ![c] = 0]
  /\ UNCHANGED <<src_state, dst_state, g_calls, g_limit, applied_src,
                 applied_dst>>
  /\ UNCHANGED <<totalsVars, rateVars, mainVars, spanVars, logVars, expVars>>

SrcGaugeStep(c, draws, nows) ==
  \/ SrcStart(c, nows) \/ SrcLoadPackets(c, draws) \/ SrcStorePackets(c)
  \/ SrcLoadBytes(c) \/ SrcStoreBytes(c) \/ SrcStoreLast(c)
  \/ SrcObsPackets(c) \/ SrcObsBytes(c) \/ SrcObsLast(c)

DstGaugeStep(c, draws) ==
  \/ DstStart(c, {0}) \/ DstLoadPackets(c, draws) \/ DstStorePackets(c)
  \/ DstLoadBytes(c) \/ DstStoreBytes(c)
  \/ DstObsPackets(c) \/ DstObsBytes(c)

\* Only callers of log_json run, on a log file of any of the sizes.
InitLog ==
  /\ InitCommon
  /\ sink_writable = TRUE
  /\ sink_base \in SinkBases
  /\ item_limit = 0
  /\ noop_tracer = FALSE
  /\ g_limit = 0

\* Concurrent callers of log_json.
NextLog == \E e \in Emitters : EmitterCall(e) \/ LogJsonStep(e) \/ EmitterReturn(e)

SpecLog == InitLog /\ [][NextLog]_vars

\* The export thread's collections, one at a time: each invokes the
\* callback of src_stats and then that of dst_stats, the order the gauges
\* were created in (lines 104-105).
NextGaugeSeq ==
  \/ /\ g_pc["export"] = "idle"
          => g_calls["export"].src = g_calls["export"].dst
     /\ SrcGaugeStep("export", SrcDraws, GaugeNows)
  \/ /\ g_pc["export"] = "idle"
          => g_calls["export"].dst < g_calls["export"].src
     /\ DstGaugeStep("export", DstDraws)

SpecGaugeSeq == InitGaugeSeq /\ [][NextGaugeSeq]_vars

\* Two concurrent callers of dst_gauge_cb: the callback itself takes no lock
\* around its updates of dst_state (src_gauge_cb, with the same unguarded
\* updates of src_state, is explored one call at a time in SpecGaugeSeq).
NextGauge == \E c \in Callers : DstGaugeStep(c, DstDraws)

SpecGauge == InitCallers /\ [][NextGauge]_vars

\* The main thread and the export thread's pulls of dst_gauge_cb.
InitFrame ==
  /\ InitCommon
  /\ sink_writable = TRUE
  /\ sink_base = 0
  /\ item_limit = MaxItemsPulled
  /\ noop_tracer = FALSE
  /\ g_limit = MaxGaugeCalls

NextFrame == Next \/ DstGaugeStep("export", DstDraws)

SpecFrame == InitFrame /\ [][NextFrame]_vars

\* Concurrent callers of log_json, with records json.dumps may fail on and
\* a log file that may be unwritable.
InitLogFault ==
  /\ InitCommon
  /\ sink_writable \in BOOLEAN
  /\ sink_base \in SinkBases
  /\ item_limit = 0
  /\ noop_tracer = FALSE
  /\ g_limit = 0

NextLogFault ==
  \E e \in Emitters :
    \/ \E bad \in BOOLEAN : EmitterCallOf(e, bad)
    \/ LogJsonStep(e)
    \/ EmitterReturn(e)

SpecLogFault == InitLogFault /\ [][NextLogFault]_vars

\* ================================================================ properties

\* Values of a sequence of observations.
Values(obs) == [i \in 1..Len(obs) |-> obs[i].value]

NonDecreasing(seq) ==
  \A i, j \in 1..Len(seq) : i < j => seq[i] <= seq[j]

\* ------------------------------------------------------------------------ C1
\* C1: the values successive pulls of app.packets.in.total (and of
\* app.packets.out.total) observe never decrease, and no step of the program
\* decrements either total.
C1_TotalsMonotonic ==
  /\ [](NonDecreasing(Values(in_obs)) /\ NonDecreasing(Values(out_obs)))
  /\ [][/\ packets_in_total' >= packets_in_total
        /\ packets_out_total' >= packets_out_total]_vars

\* Two pulls of each counter with main-loop increments between them.
C1_Witness ==
  /\ Len(in_obs) = MaxPulls
  /\ in_obs[1].value < in_obs[MaxPulls].value
  /\ packets_out_total > 0

\* ------------------------------------------------------------------------ C2
\* C2: no write of the main loop to packets_in_total or packets_out_total
\* falls between packet_rate_cb's read of packets_in_total and its update of
\* last_total and last_rate_calc.
C2_RatePullAtomic ==
  [][(exp_pc = "rate_read_out" \/ exp_pc = "rate_update")
       => (/\ packets_in_total' = packets_in_total
           /\ packets_out_total' = packets_out_total)]_vars

\* ------------------------------------------------------------------------ C3
\* C3: the deltas (current - last_total) of the pulls of packet_rate_cb so
\* far sum to the current the latest pull read (the baseline being 0), and
\* that current never exceeds the totals, so an increment is counted in
\* exactly one pull's delta.
C3_DeltasSumToCurrent ==
  /\ delta_sum = last_total
  /\ last_total <= packets_in_total + packets_out_total

\* Two pulls, each with a positive delta.
C3_Witness ==
  /\ pulls = MaxPulls
  /\ exp_pc = "idle"
  /\ rate_obs # <<>>
  /\ rate_obs[1].value.num > 0
  /\ rate_obs[1].value.num < delta_sum * TicksPerSecond

\* ------------------------------------------------------------------------ C4
\* The sum of the deltas applied so far to the series an observation is of.
AppliedTo(o) ==
  IF "dst" \in DOMAIN o
    THEN IF o.metric = "packets" THEN applied_dst[o.dst].packets
                                 ELSE applied_dst[o.dst].bytes
    ELSE IF o.metric = "packets" THEN applied_src[o.src].packets
                                 ELSE applied_src[o.src].bytes

\* C4: whenever a gauge callback reports a packets or bytes value of an
\* entity, the value is the sum of all the deltas applied to that entity
\* before the report: no delta is lost.
C4_ReportedIsSumOfDeltas ==
  [][\A c \in Callers :
       Len(g_out'[c]) > Len(g_out[c])
         => g_out'[c][Len(g_out'[c])].value
              = AppliedTo(g_out'[c][Len(g_out'[c])])]_vars

\* ------------------------------------------------------------------------ C5
\* The ids of the child spans, in the order they were opened.
ChildIds ==
  SelectSeq([c \in 1..Len(spans) |-> c], LAMBDA c : spans[c].parent # 0)

\* The root span of the iteration the i-th emitted record belongs to: every
\* item opens one child span per stage before its record is emitted, so the
\* root is the parent of the item's last child span.
RootOfRecord(i) == spans[ChildIds[Len(StageNames) * i]].parent

\* The root span opened last.
LastRoot ==
  CHOOSE r \in 1..Len(spans) :
    /\ spans[r].parent = 0
    /\ \A q \in (r + 1)..Len(spans) : spans[q].parent # 0

\* Number of items of the iterations before the last root's: the child
\* spans of the earlier roots, one per stage and item.
ItemsBefore ==
  Cardinality({c \in 1..Len(spans) :
                 spans[c].parent # 0 /\ spans[c].parent < LastRoot})
    \div Len(StageNames)

\* C5: every record log_json emitted for an item carries the 32 hex digit
\* form of the trace id of the root span of the item's iteration, never
\* None, so the records of one iteration share one trace id.
C5_RecordsCarryRootTraceId ==
  /\ \A i \in 1..Len(emitted) :
       /\ emitted[i].trace_id # None
       /\ Len(emitted[i].trace_id) = TraceIdWidth
       /\ spans[RootOfRecord(i)].parent = 0
  /\ \A r \in 1..Len(spans) :
       spans[r].parent = 0
         => LET id == HexPad(spans[r].trace_id, TraceIdWidth)
            IN  \A i \in 1..Len(emitted) :
                  RootOfRecord(i) = r => emitted[i].trace_id = id

\* Two whole iterations, the second of three items: the records of the first
\* are under trace id 255, the three of the second under 509.
C5_Witness ==
  /\ iter = 2
  /\ req_count = MinReqCount
  /\ Len(emitted) = MaxItems
  /\ emitted[1].trace_id = "000000000000000000000000000000ff"
  /\ emitted[MaxItems - MinReqCount].trace_id = emitted[1].trace_id
  /\ emitted[MaxItems - MinReqCount + 1].trace_id
       = "000000000000000000000000000001fd"
  /\ emitted[MaxItems].trace_id = "000000000000000000000000000001fd"

\* ------------------------------------------------------------------------ C6
\* Position of span id in the order the spans ended in.
EndPos(id) == CHOOSE k \in 1..Len(ended) : ended[k] = id

\* C6: a closed root has only closed children, each ended before it (and
\* begun after it), on every exit path of the with blocks.
C6_ChildrenNestInRoot ==
  \A r \in 1..Len(spans) :
    (spans[r].parent = 0 /\ spans[r].state = "Closed")
      => \A c \in 1..Len(spans) :
           spans[c].parent = r
             => /\ spans[c].state = "Closed"
                /\ c > r
                /\ EndPos(c) < EndPos(r)

\* The second iteration was left by an exception raised in a child's block:
\* the child ended, then the root.
C6_Witness ==
  /\ main_pc = "aborted"
  /\ iter = 2
  /\ Len(ended) >= 2
  /\ spans[ended[Len(ended)]].name = "process_batch"
  /\ spans[ended[Len(ended) - 1]].parent = ended[Len(ended)]

\* ------------------------------------------------------------------------ C7
\* The chunks of a sequence of backups, oldest file first.
RECURSIVE ChunksOf(_)
ChunksOf(files) ==
  IF files = <<>> THEN <<>>
  ELSE ChunksOf(Tail(files)) \o Head(files).chunks

\* What the sink has received, in order: the chunks of the backups and then
\* those of the log file.
Lines == ChunksOf(backups) \o sink

\* The line of the k-th record of emitter e: its JSON and the terminator.
LineOf(e, k) == JsonDumps(EmitterRecord(e, k)) \o "\n"

\* The lines that hold a record of emitter e, in sink order.
LinesOf(e) ==
  SelectSeq(Lines, LAMBDA l : \E k \in 1..MaxEmits : l = LineOf(e, k))

\* Number of records emitter e has had written.
Written(e) ==
  IF lj_pc[e] \in {"acquire", "info"}
    THEN emit_count[e] - 1 ELSE emit_count[e]

\* C7: what the sink has received is a sequence of whole lines, one per
\* record written: every chunk is the JSON of one record followed by the
\* terminator, and each emitter's lines are its records in the order it
\* emitted them, so N emitters of M records leave N * M lines; a rollover
\* of the log file moves whole lines only.
C7_LinesWhole ==
  /\ \A e \in Emitters :
       LinesOf(e) = [k \in 1..Written(e) |-> LineOf(e, k)]
  /\ Len(Lines) = Written("e1") + Written("e2")
  /\ \A i \in 1..Len(backups) :
       backups[i].base + Bytes(backups[i].chunks) < MaxBytes
  /\ Tell < MaxBytes

\* Both emitters are done, their lines alternate, and the file was rolled
\* over before the second line was written.
C7_Witness ==
  /\ \A e \in Emitters : emit_count[e] = MaxEmits /\ lj_pc[e] = "idle"
  /\ Len(backups) = 1
  /\ backups[1].base = MaxBytes - 300
  /\ backups[1].chunks = <<LineOf("e2", 1)>>
  /\ sink = <<LineOf("e1", 1), LineOf("e2", 2), LineOf("e1", 2)>>
  /\ sink_base = 0

\* ------------------------------------------------------------------------ C8
\* C8: with an unwritable sink log_json does not return normally, and no
\* record is reported as emitted.
C8_SinkFailurePropagates ==
  ~sink_writable => (lj_pc["main"] # "returned" /\ emitted = <<>>)

\* ------------------------------------------------------------------------ C9
\* C9: an exception raised by an operation of an iteration never takes the
\* main thread out of the while loop.
C9_LoopSurvivesError == exc => main_pc # "aborted"

\* ----------------------------------------------------------------------- C10
RECURSIVE SumPackets(_)
SumPackets(recs) ==
  IF recs = <<>> THEN 0
  ELSE (Head(recs).bytes \div SizeDivisor) + SumPackets(Tail(recs))

\* The records emitted by the iteration that has just completed.
LastBatch == SubSeq(emitted, ItemsBefore + 1, Len(emitted))

\* C10: when an iteration that drew n has completed, each total has grown
\* over the iteration by the sum of size // 512 over its n items, and n
\* records have been emitted (n lines written).
C10_BatchAccounting ==
  (main_pc = "loop" /\ iter >= 1)
    => /\ Len(LastBatch) = req_count
       /\ Len(Lines) = Len(emitted)
       /\ packets_in_total = totals_at_start[1] + SumPackets(LastBatch)
       /\ packets_out_total = totals_at_start[2] + SumPackets(LastBatch)

\* The second iteration, of five items, completed after a first of three
\* that added 7 packets; it added 14.
C10_Witness ==
  /\ main_pc = "loop"
  /\ iter = 2
  /\ req_count = MaxItems - MinReqCount
  /\ Len(emitted) = MaxItems
  /\ totals_at_start = <<7, 7>>
  /\ packets_in_total = 21
  /\ packets_out_total = 21

\* ----------------------------------------------------------------------- C11
\* C11: the elapsed every invocation of packet_rate_cb divides by is
\* strictly positive: it is now - last_rate_calc when that is at least the
\* floor of 0.001 s, and the floor when it is less (zero or negative); the
\* invocation always returns its observation.
C11_ElapsedPositive ==
  [][(exp_pc = "rate_update" /\ exp_pc' = "idle")
       => /\ Len(rate_obs') = 1
          /\ rate_obs'[1].value.den > 0
          /\ rate_obs'[1].value.den
               = IF last_rate_calc' - last_rate_calc >= ElapsedFloor
                   THEN last_rate_calc' - last_rate_calc
                   ELSE ElapsedFloor]_vars

\* A second pull whose clock reading is not after the first's: the divisor
\* is the floor.
C11_Witness ==
  /\ pulls = MaxPulls
  /\ exp_pc = "idle"
  /\ last_rate_calc = 0
  /\ rate_obs # <<>>
  /\ rate_obs[1].value.den = ElapsedFloor

\* ----------------------------------------------------------------------- C12
\* C12: an invocation of packet_rate_cb that read current at time now
\* returns (current - last_total) / max(0.001, now - last_rate_calc) and
\* leaves last_total = current and last_rate_calc = now; from last_total =
\* 100 at t = 0, a current of 150 at t = 5 s gives 10 packets per second
\* and leaves last_total = 150, last_rate_calc = 5 s.
C12_RateFormula ==
  [][(exp_pc = "rate_update" /\ exp_pc' = "idle")
       => /\ rate_obs'[1].value.num
               = (r_current - last_total) * TicksPerSecond
          /\ rate_obs'[1].value.den
               = Max(ElapsedFloor, last_rate_calc' - last_rate_calc)
          /\ last_total' = r_current
          /\ (last_total = 100 /\ last_rate_calc = 0 /\ r_current = 150
                /\ last_rate_calc' = 5 * TicksPerSecond)
               => /\ rate_obs'[1].value.num = 10 * rate_obs'[1].value.den
                  /\ last_total' = 150]_vars

\* The pull of the example has returned: a growth of 50 over 5 s up to 150.
C12_Witness ==
  /\ exp_pc = "idle"
  /\ rate_obs = <<Observation([num |-> 50 * TicksPerSecond,
                               den |-> 5 * TicksPerSecond])>>
  /\ last_total = 150
  /\ last_rate_calc = 5 * TicksPerSecond

\* ----------------------------------------------------------------------- C13
\* C13: every rate packet_rate_cb returned is a non-negative numerator over
\* a positive divisor, and the total a pull has read is at least the
\* last_total the previous pull stored, however the pulls interleave with
\* the main loop.
C13_RateNonNegative ==
  /\ rate_obs # <<>>
       => (rate_obs[1].value.num >= 0 /\ rate_obs[1].value.den > 0)
  /\ exp_pc = "rate_update" => r_current >= last_total

\* A second pull right after the first (elapsed 0, divisor at the floor)
\* that still saw the totals grow.
C13_Witness ==
  /\ pulls = MaxPulls
  /\ exp_pc = "idle"
  /\ last_rate_calc = 3
  /\ rate_obs # <<>>
  /\ rate_obs[1].value.den = ElapsedFloor
  /\ rate_obs[1].value.num > 0

\* ----------------------------------------------------------------------- C14
SrcMetrics == <<"packets", "bytes", "last">>
DstMetrics == <<"packets", "bytes">>

\* The sum of the deltas applied to a metric of an entity; for last, the
\* time of the entity's latest refresh.
SrcCumulative(e, m) ==
  IF m = "last" THEN src_state[e].last ELSE applied_src[e][m]

\* The observations a pull of src_gauge_cb owes: for each source in order,
\* one per metric, of the cumulative value.
SrcExpected ==
  [j \in 1..(Len(sources) * Len(SrcMetrics)) |->
     LET e == sources[((j - 1) \div Len(SrcMetrics)) + 1]
         m == SrcMetrics[((j - 1) % Len(SrcMetrics)) + 1]
     IN  [value |-> SrcCumulative(e, m), hostname |-> "host1",
          src |-> e, metric |-> m]]

DstExpected ==
  [j \in 1..(Len(destinations) * Len(DstMetrics)) |->
     LET e == destinations[((j - 1) \div Len(DstMetrics)) + 1]
         m == DstMetrics[((j - 1) % Len(DstMetrics)) + 1]
     IN  [value |-> applied_dst[e][m], hostname |-> "host1",
          dst |-> e, metric |-> m]]

\* C14: the list an invocation of src_gauge_cb (dst_gauge_cb) returns holds
\* exactly one observation per source (destination) and metric, whose value
\* is the entity's cumulative value with this pull's increment applied (for
\* last, the time of this pull), not the increment.
C14_OnePerEntityMetric ==
  (g_pc["export"] = "idle" /\ g_calls["export"].src >= 1)
    => /\ g_calls["export"].dst < g_calls["export"].src
            => g_out["export"] = SrcExpected
       /\ g_calls["export"].dst = g_calls["export"].src
            => g_out["export"] = DstExpected

\* The second pull of src_gauge_cb has returned: source1 drew 50 packets in
\* one pull and 200 in the other and is reported at 250.
C14_Witness ==
  /\ g_pc["export"] = "idle"
  /\ g_calls["export"].src = 2
  /\ g_calls["export"].dst = 1
  /\ Len(g_out["export"]) = 15
  /\ g_out["export"][1]
       = SrcObservation(SrcPacketsLo + SrcPacketsHi, "source1", "packets")
  /\ g_out["export"][3].metric = "last"

\* ----------------------------------------------------------------------- C15
\* C15: every step of the main loop (of its body or of its log_json call)
\* leaves src_state and dst_state unchanged, and src_state (dst_state) is
\* written only by the store of a `+=` or of last in src_gauge_cb (by the
\* store of a `+=` in dst_gauge_cb).
C15_MainLoopFrame ==
  [][/\ (main_pc' # main_pc \/ lj_pc' # lj_pc)
          => (src_state' = src_state /\ dst_state' = dst_state)
     /\ (src_state' # src_state)
          => \E c \in Callers :
               g_pc[c] \in {"s_store_pk", "s_store_by", "s_store_last"}
                 /\ g_pc'[c] # g_pc[c]
     /\ (dst_state' # dst_state)
          => \E c \in Callers :
               g_pc[c] \in {"d_store_pk", "d_store_by"}
                 /\ g_pc'[c] # g_pc[c]]_vars

\* The main loop has processed an item from source5 to dest2 and a pull of
\* dst_gauge_cb has counted packets for dest2: only the pull's are there.
C15_Witness ==
  /\ emitted # <<>>
  /\ emitted[1].src = "source5"
  /\ emitted[1].dst = "dest2"
  /\ packets_out_total > 0
  /\ dst_state["dest2"].packets = applied_dst["dest2"].packets
  /\ dst_state["dest2"].packets \in {DstPacketsLo, DstPacketsHi}
  /\ src_state["source5"].packets = 0

\* ----------------------------------------------------------------------- C16
\* C16: when the current span context has no valid trace identity, every
\* record the main loop builds has trace_id None, is written to the sink as
\* a line whose trace_id is null, and log_json returns: each completed
\* iteration has emitted its req_count records.
C16_NullTraceIdEmitted ==
  /\ \A i \in 1..Len(emitted) :
       /\ emitted[i].trace_id = None
       /\ i <= Len(Lines)
       /\ Lines[i] = JsonDumps(emitted[i]) \o "\n"
  /\ lj_pc["main"] # "idle" => lj_rec["main"].trace_id = None
  /\ stderr_reports = 0
  /\ (main_pc = "loop" /\ ~exc /\ iter >= 1)
       => Len(emitted) = ItemsBefore + req_count

\* The first item of an iteration under a no-op tracer was logged with a
\* null trace_id.
C16_Witness ==
  /\ noop_tracer
  /\ Len(emitted) >= 1
  /\ CurrentTraceId = 0
  /\ span_stack # <<>>
  /\ sink[1] = "{\"ts\":\"2024-01-01T00:00:00.000001Z\",\"level\":\"INFO\","
               \o "\"hostname\":\"host1\",\"src\":\"source1\","
               \o "\"dst\":\"dest1\",\"bytes\":200,\"latency_ms\":0,"
               \o "\"status\":\"ok\",\"trace_id\":null,"
               \o "\"msg\":\"processed message\"}\n"

\* ----------------------------------------------------------------------- C17
\* C17: a thread owns the sink's lock only inside one call of log_json,
\* between its acquire and its release, and owns it no longer once the call
\* has returned or raised (json.dumps failing, or the write failing); when
\* no call is between acquire and release the lock is free.
C17_LockReleasedOnEveryPath ==
  /\ \A t \in Threads :
       /\ lock_owner = t
            => lj_pc[t] \in {"info", "flush", "release", "release_raise"}
       /\ lj_pc[t] \in {"info", "flush", "release", "release_raise"}
            => lock_owner = t
       /\ lj_pc[t] \in {"returned", "raised", "idle", "acquire"}
            => lock_owner # t
  /\ (lock_owner = NoThread) <=> (lock_count = 0)

\* e1's call raised on a record json.dumps cannot encode, and after it e2
\* acquired the lock.
C17_Witness ==
  /\ lj_pc["e1"] = "raised"
  /\ lj_rec["e1"].msg = Unserializable
  /\ lock_owner = "e2"
  /\ emit_count["e2"] = 1
  /\ emitted = <<>>

\* ----------------------------------------------------------------------- C18
\* Largest size // 512 of an item: size is at most 4000 (line 148).
MaxSize == 4000
MaxItemPackets == MaxSize \div SizeDivisor

\* C18: in every state, also at the instant of a concurrent pull,
\* packets_in_total - packets_out_total is the size // 512 (in 0..7) of the
\* item being processed while the main loop is between lines 162 and 163,
\* and 0 everywhere else: at the iteration boundaries and after every
\* processed item.
C18_TotalsDifference ==
  /\ packets_in_total - packets_out_total
       = IF main_pc = "inc_out" THEN cur.size \div SizeDivisor ELSE 0
  /\ packets_in_total - packets_out_total \in 0..MaxItemPackets

\* A pull of packets_in_cb between lines 162 and 163 of an item of 4000
\* bytes: it observed a total 7 above packets_out_total.
C18_Witness ==
  /\ main_pc = "inc_out"
  /\ cur.size = 4000
  /\ in_obs # <<>>
  /\ in_obs[Len(in_obs)].value = packets_out_total + MaxItemPackets

\* ----------------------------------------------------------------------- C19
SrcPcs ==
  {"s_load_pk", "s_store_pk", "s_load_by", "s_store_by", "s_store_last",
   "s_obs_pk", "s_obs_by", "s_obs_last"}
DstPcs ==
  {"d_load_pk", "d_store_pk", "d_load_by", "d_store_by", "d_obs_pk",
   "d_obs_by"}

\* The counters c of an entity after k pulls that each added between lo and
\* hi packets of between 64 and 1200 bytes.
InRange(c, k, lo, hi) ==
  /\ c.packets >= lo * k
  /\ c.packets <= hi * k
  /\ ByteSizeLo * c.packets <= c.bytes
  /\ c.bytes <= ByteSizeHi * c.packets

\* C19: with the pulls made one at a time, after k completed pulls of
\* src_gauge_cb every source has 50k <= packets <= 200k and 64 * packets <=
\* bytes <= 1200 * packets (after k pulls of dst_gauge_cb every destination
\* 40k <= packets <= 160k and the same for bytes), and every write of a pull
\* to packets adds 50..200 (40..160) and every write to bytes adds more
\* than 0.
C19_CountersInRange ==
  /\ [](/\ g_pc["export"] \notin SrcPcs
             => \A e \in Range(sources) :
                  InRange(src_state[e], g_calls["export"].src,
                          SrcPacketsLo, SrcPacketsHi)
        /\ g_pc["export"] \notin DstPcs
             => \A e \in Range(destinations) :
                  InRange(dst_state[e], g_calls["export"].dst,
                          DstPacketsLo, DstPacketsHi))
  /\ [][/\ \A e \in Range(sources) :
             /\ src_state'[e].packets # src_state[e].packets
                  => src_state'[e].packets - src_state[e].packets
                       \in SrcPacketsLo..SrcPacketsHi
             /\ src_state'[e].bytes >= src_state[e].bytes
             /\ g_pc["export"] = "s_store_by"
                  => src_state'[sources[g_i["export"]]].bytes
                       > src_state[sources[g_i["export"]]].bytes
        /\ \A e \in Range(destinations) :
             /\ dst_state'[e].packets # dst_state[e].packets
                  => dst_state'[e].packets - dst_state[e].packets
                       \in DstPacketsLo..DstPacketsHi
             /\ dst_state'[e].bytes >= dst_state[e].bytes
             /\ g_pc["export"] = "d_store_by"
                  => dst_state'[destinations[g_i["export"]]].bytes
                       > dst_state[destinations[g_i["export"]]].bytes]_vars

\* Two collections are complete: source1 drew 50 packets of 64 bytes twice,
\* source5 200 packets of 1200 bytes twice, dest1 40 and then 160 packets.
C19_Witness ==
  /\ g_pc["export"] = "idle"
  /\ g_calls["export"] = [src |-> 2, dst |-> 2]
  /\ src_state["source1"].packets = 2 * SrcPacketsLo
  /\ src_state["source1"].bytes = 2 * SrcPacketsLo * ByteSizeLo
  /\ src_state["source5"].packets = 2 * SrcPacketsHi
  /\ src_state["source5"].bytes = 2 * SrcPacketsHi * ByteSizeHi
  /\ dst_state["dest1"].packets = DstPacketsLo + DstPacketsHi

\* ----------------------------------------------------------------------- C20
\* The records emitted under root span r, in order.
RecordsOf(r) ==
  LET id == HexPad(spans[r].trace_id, TraceIdWidth)
  IN  SelectSeq(emitted, LAMBDA rec : rec.trace_id = id)

RECURSIVE SumLatency(_)
SumLatency(recs) ==
  IF recs = <<>> THEN 0
  ELSE Head(recs).latency_ms + SumLatency(Tail(recs))

Children(r) == {c \in 1..Len(spans) : spans[c].parent = r}

\* The iteration of root r was left by an exception.
Unwound(r) == exc /\ r = LastRoot

\* C20: a root span that has closed normally carries, after hostname,
\* batch.size = the number of records emitted in its iteration (req_count,
\* in 3..8) and batch.latency_ms = the sum of those records' latency_ms; a
\* root carries the two attributes only once all its child spans (three
\* per record) are closed, and it is given them while still Active.
C20_BatchAttributes ==
  \A r \in 1..Len(spans) :
    spans[r].parent = 0
      => /\ (spans[r].state = "Closed" /\ ~Unwound(r))
              => Len(spans[r].attrs) = 3
         /\ Len(spans[r].attrs) \in {1, 3}
         /\ (Len(spans[r].attrs) = 1 /\ spans[r].state = "Closed")
              => Unwound(r)
         /\ Len(spans[r].attrs) = 3
              => LET recs == RecordsOf(r)
                 IN  /\ spans[r].attrs[2] = <<"batch.size", Len(recs)>>
                     /\ (r = LastRoot /\ main_pc # "root")
                          => Len(recs) = req_count
                     /\ Len(recs) \in MinReqCount..MaxReqCount
                     /\ spans[r].attrs[3]
                          = <<"batch.latency_ms", SumLatency(recs)>>
                     /\ Cardinality(Children(r)) = 3 * Len(recs)
                     /\ \A c \in Children(r) : spans[c].state = "Closed"

\* The second root closed normally after items of latency 59, 0 and 59 ms.
C20_Witness ==
  /\ main_pc = "loop"
  /\ iter = 2
  /\ Len(ended) = 2 * (3 * MinReqCount + 1)
  /\ spans[ended[Len(ended)]].state = "Closed"
  /\ spans[ended[Len(ended)]].attrs
       = << <<"hostname", "host1">>, <<"batch.size", MinReqCount>>,
            <<"batch.latency_ms", 118>> >>
  /\ emitted[2 * MinReqCount - 1].latency_ms = 0

====
